---- MODULE Spec2Model ----
(***************************************************************************)
(* WalletView (src/qt/walletview.cpp): the stacked widget that holds the   *)
(* wallet pages, opens the wallet dialogs and relays the notifications of  *)
(* the wallet model.  Every slot of the class is one action.  What a slot  *)
(* does that leaves the object (signals emitted, calls on the wallet, the  *)
(* node or a child widget, dialogs shown) is recorded, in program order,   *)
(* in `trace`; `op` and `arg` name the slot that ran last and the values it *)
(* was given or read from its collaborators.                               *)
(***************************************************************************)
EXTENDS Integers, Sequences, FiniteSets, TLC

VARIABLES
    clientModel,       \* WalletView::clientModel
    walletModel,       \* WalletView::walletModel
    walletFrame,       \* WalletView::walletFrame, fixed by the constructor
    currentWidget,     \* QStackedWidget::currentWidget()
    progressDialog,    \* WalletView::progressDialog and the dialog it points to
    pagesWalletModel,  \* the wallet model handed to the child pages
    pagesClientModel,  \* the client model handed to the child pages
    handed,            \* per wallet model: the client model the view handed it
    connected,         \* wallet models whose signals are connected to the view
    crashed,           \* a null wallet model was dereferenced and the process died
    op,                \* the slot that ran last
    arg,               \* its arguments and what it read from its collaborators
    trace              \* what it emitted, called and showed, in order

vars == <<clientModel, walletModel, walletFrame, currentWidget, progressDialog,
          pagesWalletModel, pagesClientModel, handed, connected,
          crashed, op, arg, trace>>

view == <<clientModel, walletModel, walletFrame, currentWidget, progressDialog,
          pagesWalletModel, pagesClientModel, handed, connected,
          crashed>>

(***************************************************************************)
(* Bounds of the model.                                                    *)
(***************************************************************************)
MaxRow == 1

(***************************************************************************)
(* The objects the view is given.                                          *)
(***************************************************************************)
NULL == "nullptr"

ClientModels == {"client"}

\* "walletA" owns a transaction table model, "walletB" returns none from
\* getTransactionTableModel().
WalletModels == {"walletA", "walletB"}

getTransactionTableModel(w) == IF w = "walletA" THEN "ttmA" ELSE NULL

Pages == {"overviewPage", "transactionsPage", "infinitynodeListPage",
          "statsWindow", "faqWindow", "stakePage"}

EncryptionStatuses == {"Unencrypted", "Locked", "Unlocked"}

Addresses == {"", "Saddr"}

Filenames == {"", "/path/file"}

ProgressValues == {0, 50, 100}

MAX_FILE_SIZE_PSBT == 100000000

FileSizes == {0, MAX_FILE_SIZE_PSBT - 1, MAX_FILE_SIZE_PSBT, MAX_FILE_SIZE_PSBT + 1}

\* GetFileSize(path, max): the number of bytes file.ignore(max) could skip.
GetFileSize(size, max) == IF size < max THEN size ELSE max

NoDialog == [held |-> FALSE, minimum |-> 0, maximum |-> 0, value |-> 0, canceled |-> FALSE]

NoInput == [start |-> 0, end |-> 0, nProgress |-> 0, addr |-> "", filename |-> "",
            model |-> NULL, from_clipboard |-> FALSE, invalid |-> FALSE,
            fileSize |-> 0, decodes |-> FALSE, backedUp |-> FALSE,
            ibd |-> FALSE, processing |-> FALSE, status |-> "",
            current |-> FALSE, outcome |-> ""]

Eff(what, s, t, i) == [what |-> what, s |-> s, t |-> t, i |-> i]

Message(title, style) == Eff("message", title, style, 0)

\* How many entries of a trace are of one kind.
Count(tr, what) == Cardinality({k \in 1..Len(tr) : tr[k].what = what})

(***************************************************************************)
(* WalletView::WalletView                                                  *)
(***************************************************************************)
Init ==
    /\ clientModel = NULL
    /\ walletModel = NULL
    /\ walletFrame \in {NULL, "walletFrame"}
    /\ currentWidget = "overviewPage"
    /\ progressDialog = NoDialog   \* not set by the constructor: nullptr by its declaration
    /\ pagesWalletModel = NULL
    /\ pagesClientModel = NULL
    /\ handed = [w \in WalletModels |-> "never"]
    /\ connected = {}
    /\ crashed = FALSE
    /\ op = "WalletView"
    /\ arg = NoInput
    /\ trace = <<>>

\* What every slot does to the bookkeeping of the last call.
Ran(name, input, effects) ==
    /\ ~crashed
    /\ op' = name
    /\ arg' = input
    /\ trace' = effects

setCurrentWidget(page) ==
    /\ currentWidget' = page
    /\ UNCHANGED <<clientModel, walletModel, walletFrame, progressDialog,
                   pagesWalletModel, pagesClientModel, handed, connected, crashed>>

stay == UNCHANGED view

(***************************************************************************)
(* WalletView::setClientModel                                              *)
(***************************************************************************)
\* setClientModel without its call of walletModel->setClientModel.
handNothing(c) == handed

\* if (walletModel) walletModel->setClientModel(_clientModel);
handClientModel(c) ==
    IF walletModel # NULL THEN [handed EXCEPT ![walletModel] = c] ELSE handed

setClientModel ==
    \E c \in ClientModels \cup {NULL} :
        /\ Ran("setClientModel", [NoInput EXCEPT !.model = c], <<>>)
        /\ clientModel' = c
        /\ pagesClientModel' = c
        /\ handed' = handClientModel(c)
        /\ UNCHANGED <<walletModel, walletFrame, currentWidget, progressDialog,
                       pagesWalletModel, connected, crashed>>

(***************************************************************************)
(* WalletView::setWalletModel.  connect() is called again on every call;   *)
(* a signal connected twice runs its slot twice, which here is the slot's  *)
(* action taken twice.                                                     *)
(***************************************************************************)
updateEncryptionStatus == <<Eff("encryptionStatusChanged", "", "", 0)>>

setWalletModel ==
    \E w \in WalletModels \cup {NULL} :
        /\ Ran("setWalletModel", [NoInput EXCEPT !.model = w],
               IF w # NULL
               THEN updateEncryptionStatus \o <<Eff("hdEnabledStatusChanged", "", "", 0)>>
               ELSE <<>>)
        /\ walletModel' = w
        /\ pagesWalletModel' = w
        /\ connected' = IF w # NULL THEN connected \cup {w} ELSE connected
        /\ UNCHANGED <<clientModel, walletFrame, currentWidget, progressDialog,
                       pagesClientModel, handed, crashed>>

(***************************************************************************)
(* WalletView::processNewTransaction, the slot of rowsInserted of the      *)
(* transaction table of a connected wallet model.                          *)
(***************************************************************************)
\* The guards without the processingQueuedTransactions() test.
notifiesWhileProcessing(ibd, processing) ==
    /\ walletModel # NULL
    /\ clientModel # NULL
    /\ ~ibd
    /\ getTransactionTableModel(walletModel) # NULL

notifies(ibd, processing) ==
    /\ ~(walletModel = NULL \/ clientModel = NULL \/ ibd)
    /\ ~(getTransactionTableModel(walletModel) = NULL \/ processing)

processNewTransaction ==
    \E start \in 0..MaxRow, ibd \in BOOLEAN, processing \in BOOLEAN :
      \E end \in start..MaxRow :
        /\ \E w \in connected : getTransactionTableModel(w) # NULL
        /\ clientModel = NULL => ~ibd
        /\ (walletModel = NULL \/ getTransactionTableModel(walletModel) = NULL)
               => ~processing
        /\ Ran("processNewTransaction",
               [NoInput EXCEPT !.start = start, !.end = end, !.ibd = ibd,
                               !.processing = processing],
               IF notifies(ibd, processing)
               THEN <<Eff("incomingTransaction", walletModel, "", start)>>
               ELSE <<>>)
        /\ stay

(***************************************************************************)
(* The page slots.                                                         *)
(***************************************************************************)
gotoOverviewPage ==
    /\ Ran("gotoOverviewPage", NoInput,
           <<Eff("showTransactionWidget", "overviewPage", "true", 0),
             Eff("showToolBoxWidget", "overviewPage", "false", 0)>>)
    /\ setCurrentWidget("overviewPage")

gotoHomePage ==
    /\ Ran("gotoHomePage", NoInput,
           <<Eff("showTransactionWidget", "overviewPage", "false", 0),
             Eff("showToolBoxWidget", "overviewPage", "true", 0)>>)
    /\ setCurrentWidget("overviewPage")

hideTransactionWidget ==
    /\ Ran("hideTransactionWidget", NoInput,
           <<Eff("showTransactionWidget", "overviewPage", "false", 0)>>)
    /\ stay

gotoHistoryPage ==
    /\ Ran("gotoHistoryPage", NoInput, <<>>)
    /\ setCurrentWidget("transactionsPage")

gotoInfinitynodePage ==
    /\ Ran("gotoInfinitynodePage", NoInput, <<>>)
    /\ setCurrentWidget("infinitynodeListPage")

gotoStatsPage ==
    /\ Ran("gotoStatsPage", NoInput, <<>>)
    /\ setCurrentWidget("statsWindow")

gotoFaqPage ==
    /\ Ran("gotoFaqPage", NoInput, <<>>)
    /\ setCurrentWidget("faqWindow")

gotoStakePage ==
    /\ Ran("gotoStakePage", NoInput, <<>>)
    /\ setCurrentWidget("stakePage")

\* The dialogs shown without asking the wallet frame.
showsAlways(current) == TRUE

\* if(walletFrame && walletFrame->currentWalletView() == this)
isCurrentWalletView(current) == walletFrame # NULL /\ current

\* What walletFrame->currentWalletView() == this can evaluate to.
CurrentValues == IF walletFrame # NULL THEN BOOLEAN ELSE {FALSE}

gotoReceiveCoinsPage ==
    \E current \in CurrentValues :
        /\ Ran("gotoReceiveCoinsPage", [NoInput EXCEPT !.current = current],
               IF isCurrentWalletView(current)
               THEN <<Eff("show", "receiveCoinsPage", "", 0)>>
               ELSE <<>>)
        /\ setCurrentWidget("overviewPage")

gotoSendCoinsPage ==
    \E addr \in Addresses, current \in CurrentValues :
        /\ Ran("gotoSendCoinsPage", [NoInput EXCEPT !.addr = addr, !.current = current],
               IF isCurrentWalletView(current)
               THEN (IF addr # ""
                     THEN <<Eff("setAddress", "sendCoinsPage", addr, 0)>>
                     ELSE <<>>)
                    \o <<Eff("show", "sendCoinsPage", "", 0)>>
               ELSE <<>>)
        /\ setCurrentWidget("overviewPage")

gotoSignMessageTab ==
    \E addr \in Addresses :
        /\ Ran("gotoSignMessageTab", [NoInput EXCEPT !.addr = addr],
               <<Eff("SignVerifyMessageDialog", "showTab_SM", walletModel, 0)>>
               \o (IF addr # ""
                   THEN <<Eff("setAddress_SM", "SignVerifyMessageDialog", addr, 0)>>
                   ELSE <<>>))
        /\ stay

\* gotoSetupTab without its setCurrentWidget.
gotoSetupTabWithoutSwitch ==
    /\ Ran("gotoSetupTab", NoInput,
           <<Eff("showTab_setUP", "infinitynodeListPage", "true", 0)>>)
    /\ stay

gotoSetupTab ==
    /\ Ran("gotoSetupTab", NoInput,
           <<Eff("showTab_setUP", "infinitynodeListPage", "true", 0)>>)
    /\ setCurrentWidget("infinitynodeListPage")

gotoVerifyMessageTab ==
    \E addr \in Addresses :
        /\ Ran("gotoVerifyMessageTab", [NoInput EXCEPT !.addr = addr],
               <<Eff("SignVerifyMessageDialog", "showTab_VM", walletModel, 0)>>
               \o (IF addr # ""
                   THEN <<Eff("setAddress_VM", "SignVerifyMessageDialog", addr, 0)>>
                   ELSE <<>>))
        /\ stay

(***************************************************************************)
(* WalletView::gotoLoadPSBT.  `invalid` is what DecodeBase64 reports of    *)
(* the clipboard text, `fileSize` the size of the chosen file, `decodes`   *)
(* whether DecodeRawPSBT accepts the data it is given.                     *)
(***************************************************************************)
\* The size test with > for ==, which the capped size never passes.
neverTooLarge(fileSize) == GetFileSize(fileSize, MAX_FILE_SIZE_PSBT) > MAX_FILE_SIZE_PSBT

\* GetFileSize(filename, MAX_FILE_SIZE_PSBT) == MAX_FILE_SIZE_PSBT
tooLarge(fileSize) == GetFileSize(fileSize, MAX_FILE_SIZE_PSBT) = MAX_FILE_SIZE_PSBT

decodeAndOpen(decodes) ==
    <<Eff("DecodeRawPSBT", "", "", 0)>>
    \o (IF ~decodes
        THEN <<Message("Unable to decode PSBT", "MSG_ERROR")>>
        ELSE <<Eff("PSBTOperationsDialog", "exec", walletModel, 0)>>)

loadPSBT(from_clipboard, invalid, filename, fileSize, decodes) ==
    IF from_clipboard
    THEN <<Eff("DecodeBase64", "clipboard", "", 0)>>
         \o (IF invalid
             THEN <<Message("Unable to decode PSBT from clipboard (invalid base64)",
                            "MSG_ERROR")>>
             ELSE decodeAndOpen(decodes))
    ELSE <<Eff("getOpenFileName", filename, "", 0)>>
         \o (IF filename = ""
             THEN <<>>
             ELSE <<Eff("GetFileSize", filename, "", fileSize)>>
                  \o (IF tooLarge(fileSize)
                      THEN <<Message("PSBT file must be smaller than 100 MiB",
                                     "MSG_ERROR")>>
                      ELSE <<Eff("ifstream", filename, "", fileSize)>>
                           \o decodeAndOpen(decodes)))

\* The inputs gotoLoadPSBT can meet: what is not read has its default, and
\* neither the partial output of a failed DecodeBase64, nor an empty file, nor
\* the contents of a file of 100000000 bytes or more is taken to decode.
PSBTInputs ==
    {x \in [from_clipboard : BOOLEAN, invalid : BOOLEAN, filename : Filenames,
            fileSize : FileSizes, decodes : BOOLEAN] :
        /\ x.from_clipboard => x.filename = "" /\ x.fileSize = 0
        /\ ~x.from_clipboard => ~x.invalid
        /\ x.invalid => ~x.decodes
        /\ (~x.from_clipboard /\ x.filename = "") => x.fileSize = 0
        /\ (~x.from_clipboard /\ x.fileSize = 0) => ~x.decodes
        /\ x.fileSize >= MAX_FILE_SIZE_PSBT => ~x.decodes}

gotoLoadPSBT ==
    \E x \in PSBTInputs :
        /\ Ran("gotoLoadPSBT",
               [NoInput EXCEPT !.from_clipboard = x.from_clipboard,
                               !.invalid = x.invalid, !.filename = x.filename,
                               !.fileSize = x.fileSize, !.decodes = x.decodes],
               loadPSBT(x.from_clipboard, x.invalid, x.filename, x.fileSize, x.decodes))
        /\ stay

(***************************************************************************)
(* A use of walletModel-> while walletModel is null is undefined: the      *)
(* process dies there, or the call goes on with whatever it finds.         *)
(***************************************************************************)
NullDeref(fn) == Eff("nullDeref", fn, NULL, 0)

(***************************************************************************)
(* The wallet slots.                                                       *)
(***************************************************************************)
AskPassphraseDialog(mode) == <<Eff("AskPassphraseDialog", mode, walletModel, 0)>>

encryptWallet ==
    /\ Ran("encryptWallet", NoInput,
           IF walletModel = NULL
           THEN <<>>
           ELSE AskPassphraseDialog("Encrypt") \o updateEncryptionStatus)
    /\ stay

backupMessage(backedUp) ==
    IF ~backedUp
    THEN <<Message("Backup Failed", "MSG_ERROR")>>
    ELSE <<Message("Backup Successful", "MSG_INFORMATION")>>

backupWallet ==
    \E filename \in Filenames :
        \/ /\ filename = ""
           /\ Ran("backupWallet", [NoInput EXCEPT !.filename = filename],
                  <<Eff("getSaveFileName", filename, "", 0)>>)
           /\ stay
        \/ /\ filename # ""
           /\ walletModel # NULL
           /\ \E backedUp \in BOOLEAN :
                Ran("backupWallet",
                    [NoInput EXCEPT !.filename = filename, !.backedUp = backedUp],
                    <<Eff("getSaveFileName", filename, "", 0),
                      Eff("backupWallet", walletModel, filename, 0)>>
                    \o backupMessage(backedUp))
           /\ stay
        \/ /\ filename # ""
           /\ walletModel = NULL
           /\ \E outcome \in {"crash", "false", "true"} :
                /\ Ran("backupWallet",
                       [NoInput EXCEPT !.filename = filename, !.outcome = outcome],
                       <<Eff("getSaveFileName", filename, "", 0),
                         NullDeref("wallet().backupWallet")>>
                       \o (IF outcome = "crash"
                           THEN <<>>
                           ELSE backupMessage(outcome = "true")))
                /\ crashed' = (outcome = "crash")
           /\ UNCHANGED <<clientModel, walletModel, walletFrame, currentWidget,
                          progressDialog, pagesWalletModel,
                          pagesClientModel, handed, connected>>

changePassphrase ==
    /\ Ran("changePassphrase", NoInput, AskPassphraseDialog("ChangePass"))
    /\ stay

\* The status test as != Unencrypted.
asksUnlessUnencrypted(status) == status # "Unencrypted"

\* walletModel->getEncryptionStatus() == WalletModel::Locked
asksPassphrase(status) == status = "Locked"

unlockWallet ==
    \E status \in (IF walletModel = NULL THEN {""} ELSE EncryptionStatuses) :
        /\ Ran("unlockWallet", [NoInput EXCEPT !.status = status],
               IF walletModel = NULL
               THEN <<>>
               ELSE IF asksPassphrase(status)
                    THEN AskPassphraseDialog("Unlock")
                    ELSE <<>>)
        /\ stay

lockWallet ==
    /\ Ran("lockWallet", NoInput,
           IF walletModel = NULL
           THEN <<>>
           ELSE <<Eff("setWalletLocked", walletModel, "true", 0)>>)
    /\ stay

usedSendingAddresses ==
    /\ Ran("usedSendingAddresses", NoInput,
           IF walletModel = NULL
           THEN <<>>
           ELSE <<Eff("bringToFront", "usedSendingAddressesPage", "", 0)>>)
    /\ stay

usedReceivingAddresses ==
    /\ Ran("usedReceivingAddresses", NoInput,
           IF walletModel = NULL
           THEN <<>>
           ELSE <<Eff("bringToFront", "usedReceivingAddressesPage", "", 0)>>)
    /\ stay

(***************************************************************************)
(* WalletView::showProgress, the slot of WalletModel::showProgress of a    *)
(* connected wallet model.  A dialog the view no longer points to is out   *)
(* of its reach and is not followed.                                       *)
(***************************************************************************)
newProgressDialog ==
    [held |-> TRUE, minimum |-> 0, maximum |-> 100, value |-> 0, canceled |-> FALSE]

\* showProgress(100) without the reset of the pointer.
keepDialog(d) == d

\* progressDialog = nullptr;
clearDialog(d) == NoDialog

showProgress ==
    \E nProgress \in ProgressValues :
        /\ connected # {}
        /\ \/ /\ nProgress = 0
              /\ Ran("showProgress", [NoInput EXCEPT !.nProgress = nProgress],
                     <<Eff("QProgressDialog", "new", "", 100),
                       Eff("setValue", "progressDialog", "", 0)>>)
              /\ progressDialog' = newProgressDialog
              /\ UNCHANGED crashed
           \/ /\ nProgress = 100
              /\ Ran("showProgress", [NoInput EXCEPT !.nProgress = nProgress],
                     IF progressDialog.held
                     THEN <<Eff("close", "progressDialog", "", 0),
                            Eff("deleteLater", "progressDialog", "", 0)>>
                     ELSE <<>>)
              /\ progressDialog' = IF progressDialog.held
                                   THEN clearDialog(progressDialog)
                                   ELSE progressDialog
              /\ UNCHANGED crashed
           \/ /\ nProgress # 0 /\ nProgress # 100
              /\ ~progressDialog.held
              /\ Ran("showProgress", [NoInput EXCEPT !.nProgress = nProgress], <<>>)
              /\ UNCHANGED <<progressDialog, crashed>>
           \/ /\ nProgress # 0 /\ nProgress # 100
              /\ progressDialog.held
              /\ ~progressDialog.canceled
              /\ Ran("showProgress", [NoInput EXCEPT !.nProgress = nProgress],
                     <<Eff("setValue", "progressDialog", "", nProgress)>>)
              /\ progressDialog' = [progressDialog EXCEPT !.value = nProgress]
              /\ UNCHANGED crashed
           \/ /\ nProgress # 0 /\ nProgress # 100
              /\ progressDialog.held
              /\ progressDialog.canceled
              /\ walletModel # NULL
              /\ Ran("showProgress", [NoInput EXCEPT !.nProgress = nProgress],
                     <<Eff("abortRescan", walletModel, "", 0)>>)
              /\ UNCHANGED <<progressDialog, crashed>>
           \/ /\ nProgress # 0 /\ nProgress # 100
              /\ progressDialog.held
              /\ progressDialog.canceled
              /\ walletModel = NULL
              /\ \E outcome \in {"crash", "goes on"} :
                    /\ Ran("showProgress",
                           [NoInput EXCEPT !.nProgress = nProgress, !.outcome = outcome],
                           <<NullDeref("wallet().abortRescan")>>)
                    /\ crashed' = (outcome = "crash")
              /\ UNCHANGED progressDialog
        /\ UNCHANGED <<clientModel, walletModel, walletFrame, currentWidget,
                       pagesWalletModel, pagesClientModel, handed, connected>>

\* The user presses the Cancel button of the progress dialog the view shows.
cancel ==
    /\ progressDialog.held
    /\ ~progressDialog.canceled
    /\ Ran("cancel", NoInput, <<>>)
    /\ progressDialog' = [progressDialog EXCEPT !.canceled = TRUE]
    /\ UNCHANGED <<clientModel, walletModel, walletFrame, currentWidget,
                   pagesWalletModel, pagesClientModel, handed, connected, crashed>>

Next ==
    \/ setClientModel
    \/ setWalletModel
    \/ processNewTransaction
    \/ gotoOverviewPage
    \/ gotoHomePage
    \/ hideTransactionWidget
    \/ gotoHistoryPage
    \/ gotoInfinitynodePage
    \/ gotoStatsPage
    \/ gotoFaqPage
    \/ gotoStakePage
    \/ gotoReceiveCoinsPage
    \/ gotoSendCoinsPage
    \/ gotoSignMessageTab
    \/ gotoSetupTab
    \/ gotoVerifyMessageTab
    \/ gotoLoadPSBT
    \/ encryptWallet
    \/ backupWallet
    \/ changePassphrase
    \/ unlockWallet
    \/ lockWallet
    \/ usedSendingAddresses
    \/ usedReceivingAddresses
    \/ showProgress
    \/ cancel

Spec == Init /\ [][Next]_vars

(***************************************************************************)
(* The claims.                                                             *)
(***************************************************************************)

C2_LoadPSBTOutcomes ==
    op = "gotoLoadPSBT" =>
        LET opened == Count(trace, "PSBTOperationsDialog")
            messages == Count(trace, "message")
            errors == Cardinality({k \in 1..Len(trace) :
                          trace[k].what = "message" /\ trace[k].t = "MSG_ERROR"})
            invalidBase64 == arg.from_clipboard /\ arg.invalid
            cancelled == ~arg.from_clipboard /\ arg.filename = ""
            oversized == /\ ~arg.from_clipboard
                         /\ arg.filename # ""
                         /\ arg.fileSize >= MAX_FILE_SIZE_PSBT
            obtained == ~invalidBase64 /\ ~cancelled /\ ~oversized
        IN  /\ opened = (IF obtained /\ arg.decodes THEN 1 ELSE 0)
            /\ (invalidBase64 \/ oversized \/ (obtained /\ ~arg.decodes))
                   => messages = 1 /\ errors = 1 /\ opened = 0
            /\ cancelled => messages = 0 /\ opened = 0
            /\ (obtained /\ arg.decodes) => messages = 0
            /\ (invalidBase64 \/ oversized)
                   => Count(trace, "DecodeRawPSBT") = 0 /\ Count(trace, "ifstream") = 0

C2_Witness ==
    /\ op = "gotoLoadPSBT"
    /\ ~arg.from_clipboard
    /\ arg.fileSize > MAX_FILE_SIZE_PSBT
    /\ Count(trace, "message") = 1
    /\ Count(trace, "DecodeRawPSBT") = 0

\* C3: backupWallet with an empty filename calls nothing and emits nothing;
\* with a chosen path it calls wallet().backupWallet once with that path and
\* emits exactly one message, Backup Failed (MSG_ERROR) or Backup Successful
\* (MSG_INFORMATION).
C3_BackupReportsOnce ==
    op = "backupWallet" =>
        IF arg.filename = ""
        THEN Count(trace, "backupWallet") = 0 /\ Count(trace, "message") = 0
        ELSE /\ Count(trace, "backupWallet") = 1
             /\ \E k \in 1..Len(trace) :
                    trace[k].what = "backupWallet" /\ trace[k].t = arg.filename
             /\ Count(trace, "message") = 1
             /\ \E k \in 1..Len(trace) :
                    \/ trace[k] = Message("Backup Failed", "MSG_ERROR")
                    \/ trace[k] = Message("Backup Successful", "MSG_INFORMATION")

\* C4: showProgress(0) makes a new dialog of range 0..100 and value 0 the
\* view's progress dialog; showProgress(100) closes the dialog, schedules its
\* deletion and clears the reference, and does nothing when there is none;
\* while the view holds no dialog an intermediate showProgress does nothing,
\* and only showProgress(0) makes the view hold a dialog again.
C4_ProgressProtocol ==
    [][/\ (op' = "showProgress" /\ arg'.nProgress = 0)
            => progressDialog' = [held |-> TRUE, minimum |-> 0, maximum |-> 100,
                                  value |-> 0, canceled |-> FALSE]
       /\ (op' = "showProgress" /\ arg'.nProgress = 100)
            => /\ ~progressDialog'.held
               /\ progressDialog.held
                    => /\ Count(trace', "close") = 1
                       /\ Count(trace', "deleteLater") = 1
               /\ ~progressDialog.held => trace' = <<>> /\ view' = view
       /\ (/\ op' = "showProgress"
           /\ arg'.nProgress > 0 /\ arg'.nProgress < 100
           /\ ~progressDialog.held)
            => trace' = <<>> /\ view' = view
       /\ (~progressDialog.held /\ progressDialog'.held)
            => op' = "showProgress" /\ arg'.nProgress = 0]_vars

C4_Witness ==
    /\ op = "showProgress"
    /\ arg.nProgress = 100
    /\ Count(trace, "close") = 1
    /\ ~progressDialog.held

\* C5: showProgress calls wallet().abortRescan() exactly when 0 < n < 100, the
\* view holds a progress dialog and that dialog was cancelled; the dialog is
\* then left as it is; an intermediate event on a dialog not cancelled sets
\* its value to n and calls no abortRescan.
C5_AbortOnCancel ==
    [][op' = "showProgress" =>
          LET n == arg'.nProgress
              cancelled == /\ n > 0 /\ n < 100
                           /\ progressDialog.held
                           /\ progressDialog.canceled
          IN  /\ Count(trace', "abortRescan") = (IF cancelled THEN 1 ELSE 0)
              /\ cancelled => progressDialog' = progressDialog
              /\ (n > 0 /\ n < 100 /\ progressDialog.held /\ ~progressDialog.canceled)
                    => progressDialog' = [progressDialog EXCEPT !.value = n]]_vars

\* C6: unlockWallet opens the unlock passphrase dialog exactly when a wallet
\* model is set and its encryption status is Locked; otherwise it shows
\* nothing; in no case does it change the view.
C6_UnlockOnlyWhenLocked ==
    [][op' = "unlockWallet" =>
          /\ view' = view
          /\ trace' = IF walletModel # NULL /\ arg'.status = "Locked"
                      THEN <<Eff("AskPassphraseDialog", "Unlock", walletModel, 0)>>
                      ELSE <<>>]_vars

C6_Witness ==
    /\ op = "unlockWallet"
    /\ arg.status = "Locked"
    /\ Count(trace, "AskPassphraseDialog") = 1

\* C7: the current page is always one of the six registered pages; each
\* page-switching slot leaves it at its own target and every other slot leaves
\* it where it was.
C7_PageNavigation ==
    [][LET overview == {"gotoOverviewPage", "gotoHomePage", "gotoReceiveCoinsPage",
                        "gotoSendCoinsPage"}
           infinitynode == {"gotoInfinitynodePage", "gotoSetupTab"}
           others == {"gotoHistoryPage", "gotoStatsPage", "gotoFaqPage", "gotoStakePage"}
       IN  /\ currentWidget' \in Pages
           /\ op' \in overview => currentWidget' = "overviewPage"
           /\ op' \in infinitynode => currentWidget' = "infinitynodeListPage"
           /\ op' = "gotoHistoryPage" => currentWidget' = "transactionsPage"
           /\ op' = "gotoStatsPage" => currentWidget' = "statsWindow"
           /\ op' = "gotoFaqPage" => currentWidget' = "faqWindow"
           /\ op' = "gotoStakePage" => currentWidget' = "stakePage"
           /\ op' \notin (overview \cup infinitynode \cup others)
                 => currentWidget' = currentWidget]_vars

C7_Witness ==
    /\ op = "gotoLoadPSBT"
    /\ currentWidget = "infinitynodeListPage"
    /\ Count(trace, "PSBTOperationsDialog") = 1

\* C8: gotoReceiveCoinsPage and gotoSendCoinsPage switch to the overview page
\* and show their dialog exactly when the view has a wallet frame whose current
\* wallet view it is; otherwise they show nothing and set no address; the send
\* dialog is given the address only when it is shown and the address is not
\* empty.
C8_DialogsOnlyForCurrentView ==
    op \in {"gotoReceiveCoinsPage", "gotoSendCoinsPage"} =>
        LET isCurrent == walletFrame # NULL /\ arg.current
            dialog == IF op = "gotoReceiveCoinsPage"
                      THEN "receiveCoinsPage" ELSE "sendCoinsPage"
        IN  /\ currentWidget = "overviewPage"
            /\ ~isCurrent => trace = <<>>
            /\ isCurrent => /\ Count(trace, "show") = 1
                            /\ trace[Len(trace)] = Eff("show", dialog, "", 0)
            /\ Count(trace, "setAddress")
                   = (IF isCurrent /\ op = "gotoSendCoinsPage" /\ arg.addr # ""
                      THEN 1 ELSE 0)
            /\ \A k \in 1..Len(trace) :
                   trace[k].what = "setAddress" => trace[k].t = arg.addr

C8_Witness ==
    /\ op = "gotoSendCoinsPage"
    /\ walletFrame # NULL
    /\ arg.current
    /\ arg.addr # ""
    /\ Len(trace) = 2

\* C9: while no wallet model is set, none of encryptWallet, backupWallet,
\* changePassphrase, unlockWallet, lockWallet, usedSendingAddresses,
\* usedReceivingAddresses, processNewTransaction and showProgress uses the
\* null wallet model.
C9_NoNullWalletModelUse ==
    (/\ walletModel = NULL
     /\ op \in {"encryptWallet", "backupWallet", "changePassphrase", "unlockWallet",
                "lockWallet", "usedSendingAddresses", "usedReceivingAddresses",
                "processNewTransaction", "showProgress"})
        => /\ Count(trace, "nullDeref") = 0
           /\ ~crashed

\* C10 as stated: whenever the view holds a wallet model, that wallet model
\* has been handed the client model the view holds, whichever setter ran
\* first (here with a client model set, the case the claim singles out).
C10_OrderIndependentWiring ==
    (walletModel # NULL /\ clientModel # NULL) => handed[walletModel] = clientModel

\* C10 as amended: setClientModel hands its client model to the wallet model
\* the view holds at that moment, and setWalletModel hands nothing to any
\* wallet model.
C10_ClientModelHandedBySetClientModel ==
    [][/\ (op' = "setClientModel" /\ walletModel' # NULL)
            => handed'[walletModel'] = clientModel'
       /\ op' = "setWalletModel" => handed' = handed]_vars

C10_Witness ==
    /\ op = "setClientModel"
    /\ walletModel # NULL
    /\ clientModel # NULL
    /\ handed[walletModel] = clientModel

====
